---- MODULE Spec2Model ----
(***************************************************************************)
(* Model of mbtool/utilities.cpp: the "generate" utility.                  *)
(*   - generate_aroma_config : the template rewriter (lines 201-243)       *)
(*   - AromaGenerator        : the FTSWrapper callbacks that build the zip *)
(*                             archive (lines 245-432)                     *)
(* Strings are sequences of one-character strings.  64-bit sizes are kept  *)
(* as two limbs [hi, lo] in base 2^16, because the boundary the code tests *)
(* ((1ull << 32) - 1) does not fit a 32-bit integer.                       *)
(***************************************************************************)
EXTENDS Integers, Sequences, FiniteSets, TLC

VARIABLES
    tree,        \* the nodes fts_read() delivers, in traversal order
    pc,          \* position of the single thread in run() / the callbacks
    idx,         \* index in tree of _curr
    zf,          \* AromaGenerator::_zf : "uninit" | "null" | "open" | "closed"
    closeCalls,  \* number of zipClose() calls made so far
    closeOK,     \* what the zipClose() call returned (== ZIP_OK)
    recOpen,     \* number of entry records currently open in the archive
    entries,     \* the entry records opened in the archive, in order
    fds,         \* source descriptors open64() returned and nobody closed
    cur,         \* locals of the running on_reached_file / add_file call
    af_err,      \* error kinds that occurred in the current add_file call
    af_ret,      \* what the last add_file call returned
    rets,        \* what each on_reached_* call returned to run(), by node
    errs,        \* error kinds that occurred anywhere in this run
    success,     \* run()'s accumulated result
    result,      \* what run() returned: "none" | TRUE | FALSE
    cfg_pc,      \* generate_aroma_config unit: "in" | "done"
    cfg_data,    \* generate_aroma_config unit: *data (a string)
    cfg_roms,    \* generate_aroma_config unit: roms.roms
    cfg_loc      \* generate_aroma_config unit: the values it substituted

vars == <<tree, pc, idx, zf, closeCalls, closeOK, recOpen, entries, fds, cur,
          af_err, af_ret, rets, errs, success, result,
          cfg_pc, cfg_data, cfg_roms, cfg_loc>>

walkVars == <<tree, pc, idx, zf, closeCalls, closeOK, recOpen, entries, fds,
              cur, af_err, af_ret, rets, errs, success, result>>
cfgVars == <<cfg_pc, cfg_data, cfg_roms, cfg_loc>>

-----------------------------------------------------------------------------
(* Bounds of the model *)
MaxNodes == 3       \* nodes in the walked tree
MaxChunks == 2      \* read() calls that return data, per file
MaxRoms == 2        \* installed ROMs
MaxPieces == 2      \* pieces a template is put together from

-----------------------------------------------------------------------------
(* 64-bit unsigned sizes, two limbs in base 2^16 *)
Limb == 256 * 256

U64(h, l) == [hi |-> h, lo |-> l]

U64FromNat(n) == U64(n \div Limb, n % Limb)

U64Add(a, n) ==
    LET s == a.lo + n
    IN  U64(a.hi + (s \div Limb), s % Limb)

U64Geq(a, b) == a.hi > b.hi \/ (a.hi = b.hi /\ a.lo >= b.lo)

\* (1ull << 32) - 1
ZIP64_LIMIT == U64(Limb - 1, Limb - 1)

-----------------------------------------------------------------------------
(* Strings *)
TOK_TAB == <<"\t">>
ESC_TAB == <<"\\", "t">>
TOK_MBTOOL_VERSION ==
    <<"@","M","B","T","O","O","L","_","V","E","R","S","I","O","N","@">>
TOK_ROM_MENU_ITEMS ==
    <<"@","R","O","M","_","M","E","N","U","_","I","T","E","M","S","@">>
TOK_ROM_SELECTION_ITEMS ==
    <<"@","R","O","M","_","S","E","L","E","C","T","I","O","N","_","I","T","E",
      "M","S","@">>
TOK_FIRST_INDEX ==
    <<"@","F","I","R","S","T","_","I","N","D","E","X","@">>
TOK_LAST_INDEX ==
    <<"@","L","A","S","T","_","I","N","D","E","X","@">>
MENU_FMT_TAIL ==
    <<"\"",","," ","\"","\"",","," ","\"","@","d","e","f","a","u","l","t",
      "\"",",","\n">>
SEL_FMT_1 ==
    <<"i","f"," ","p","r","o","p","(","\"","o","p","e","r","a","t","i","o",
      "n","s",".","p","r","o","p","\"",","," ","\"","s","e","l","e","c","t",
      "e","d","\"",")"," ","=","="," ","\"">>
SEL_FMT_2 ==
    <<"\""," ","t","h","e","n","\n"," "," "," "," ","s","e","t","v","a","r",
      "(","\"","r","o","m","i","d","\"",","," ","\"">>
SEL_FMT_3 ==
    <<"\"",")",";","\n"," "," "," "," ","s","e","t","v","a","r","(","\"","r",
      "o","m","n","a","m","e","\"",","," ","\"">>
SEL_FMT_4 ==
    <<"\"",")",";","\n","e","n","d","i","f",";","\n">>

\* MBP_VERSION: a build-time definition; any version string of digits and dots
MBP_VERSION == <<"8", ".", "0", ".", "0">>

Digit(d) == <<"0","1","2","3","4","5","6","7","8","9">>[d + 1]

\* util::format("%zu", n) / util::format("%d", n) for n >= 0
RECURSIVE FormatNat(_)
FormatNat(n) ==
    IF n < 10 THEN <<Digit(n)>>
    ELSE FormatNat(n \div 10) \o <<Digit(n % 10)>>

\* std::string::find(from, pos): first position >= pos (1-based) where from
\* occurs in s, 0 for npos
find(s, from, pos) ==
    LET hits == { i \in pos..(Len(s) - Len(from) + 1) :
                    /\ s[i] = from[1]
                    /\ SubSeq(s, i, i + Len(from) - 1) = from }
    IN  IF hits = {} THEN 0
        ELSE CHOOSE i \in hits : \A j \in hits : i <= j

\* util::replace_all(&s, from, to): every occurrence, left to right, the
\* search resuming after the text just inserted
RECURSIVE replace_from(_, _, _, _)
replace_from(s, from, to, pos) ==
    LET i == find(s, from, pos)
    IN  IF i = 0 THEN s
        ELSE replace_from(SubSeq(s, 1, i - 1) \o to
                            \o SubSeq(s, i + Len(from), Len(s)),
                          from, to, i + Len(to))

replace_all(s, from, to) ==
    IF from = <<>> THEN s ELSE replace_from(s, from, to, 1)

Contains(s, tok) == find(s, tok, 1) # 0

Tokens == {TOK_TAB, TOK_MBTOOL_VERSION, TOK_ROM_MENU_ITEMS,
           TOK_ROM_SELECTION_ITEMS, TOK_FIRST_INDEX, TOK_LAST_INDEX}

-----------------------------------------------------------------------------
(* generate_aroma_config *)

\* number of menu slots ahead of the ROMs: the literal 2 of lines 231-240
RESERVED_SLOTS == 2

\* RomConfig::load_file succeeded ? config.name : rom->id   (lines 216-221)
RomName(rom) == IF rom.has_config THEN rom.config_name ELSE rom.id

\* the line appended to rom_menu_items for one ROM   (lines 223-224)
MenuItem(rom) == <<"\"">> \o RomName(rom) \o MENU_FMT_TAIL

\* the statement appended to rom_selection_items for roms[i], i 0-based
\* (lines 226-231)
SelectionItem(rom, i) ==
    SEL_FMT_1 \o FormatNat(i + RESERVED_SLOTS + 1) \o SEL_FMT_2 \o rom.id
        \o SEL_FMT_3 \o RomName(rom) \o SEL_FMT_4

RECURSIVE MenuItemsUpTo(_, _)
MenuItemsUpTo(roms, n) ==
    IF n = 0 THEN <<>>
    ELSE MenuItemsUpTo(roms, n - 1) \o MenuItem(roms[n])

RECURSIVE SelectionItemsUpTo(_, _)
SelectionItemsUpTo(roms, n) ==
    IF n = 0 THEN <<>>
    ELSE SelectionItemsUpTo(roms, n - 1) \o SelectionItem(roms[n], n - 1)

rom_menu_items(roms) == MenuItemsUpTo(roms, Len(roms))
rom_selection_items(roms) == SelectionItemsUpTo(roms, Len(roms))

\* util::format("%d", 2 + 1)   (line 238)
first_index == FormatNat(RESERVED_SLOTS + 1)

\* mutant of last_index: the reserved-slot offset 3 instead of 2
last_index_from_offset(roms) == FormatNat(RESERVED_SLOTS + 1 + Len(roms))

\* util::format("%zu", 2 + roms.roms.size())   (lines 239-240)
last_index(roms) == FormatNat(RESERVED_SLOTS + Len(roms))

\* the six replace_all calls, in the order of lines 234-240
generate_aroma_config(str_data, roms) ==
    LET s1 == replace_all(str_data, TOK_TAB, ESC_TAB)
        s2 == replace_all(s1, TOK_MBTOOL_VERSION, MBP_VERSION)
        s3 == replace_all(s2, TOK_ROM_MENU_ITEMS, rom_menu_items(roms))
        s4 == replace_all(s3, TOK_ROM_SELECTION_ITEMS,
                          rom_selection_items(roms))
        s5 == replace_all(s4, TOK_FIRST_INDEX, first_index)
        s6 == replace_all(s5, TOK_LAST_INDEX, last_index(roms))
    IN  s6

-----------------------------------------------------------------------------
(* The generate_aroma_config unit: inputs drawn in ConfigInit *)

Str_primary == <<"p","r","i","m","a","r","y">>
Str_dual == <<"d","u","a","l">>
Str_data_slot == <<"d","a","t","a","-","s","l","o","t","-","1">>

\* a ROM as generate_aroma_config sees it: its id, whether
\* /data/media/0/MultiBoot/<id>/config.json loads, and the name in it
Rom(id, has, name) == [id |-> id, has_config |-> has, config_name |-> name]

RomChoices ==
    { Rom(Str_primary, FALSE, <<>>),
      Rom(Str_dual, TRUE, <<"M","y"," ","R","O","M">>),
      Rom(Str_data_slot, TRUE, <<"a","\t","b">>),
      Rom(Str_data_slot, TRUE, TOK_MBTOOL_VERSION) }

SeqsUpTo(S, n) == UNION { [1..k -> S] : k \in 0..n }

RomLists == SeqsUpTo(RomChoices, MaxRoms)

RECURSIVE Flatten(_)
Flatten(ss) == IF ss = <<>> THEN <<>> ELSE Head(ss) \o Flatten(Tail(ss))

Pieces == Tokens \cup { <<"a">>, <<"@">> }

Templates == { Flatten(ps) : ps \in SeqsUpTo(Pieces, MaxPieces) }

NoLoc == [in |-> <<>>, menu |-> <<>>, sel |-> <<>>, first |-> <<>>,
          last |-> <<>>]

CfgIdle ==
    /\ cfg_pc = "idle"
    /\ cfg_data = <<>>
    /\ cfg_roms = <<>>
    /\ cfg_loc = NoLoc

\* one call generate_aroma_config(&cfg_data) with roms.add_installed()
\* giving cfg_roms
ConfigGenerate ==
    /\ cfg_pc = "in"
    /\ cfg_data' = generate_aroma_config(cfg_data, cfg_roms)
    /\ cfg_loc' = [in |-> cfg_data,
                   menu |-> rom_menu_items(cfg_roms),
                   sel |-> rom_selection_items(cfg_roms),
                   first |-> first_index,
                   last |-> last_index(cfg_roms)]
    /\ cfg_pc' = "done"
    /\ UNCHANGED <<cfg_roms, walkVars>>

-----------------------------------------------------------------------------
(* The walk: AromaGenerator driven by FTSWrapper::run() *)

\* FTSWrapper::Action: a bit mask, FTS_OK no bit set
FTS_OK == 0
FTS_Fail == 1

HasFail(ret) == ret % 2 = 1

\* a bool returned from a function returning int
BoolToInt(b) == IF b THEN 1 ELSE 0

ROOT_PATH == <<"tmp", "aroma">>

AROMA_CONFIG_IN ==
    <<"META-INF", "com", "google", "android", "aroma-config.in">>
AROMA_CONFIG ==
    <<"META-INF", "com", "google", "android", "aroma-config">>

Node(kind, rel, size, mode) ==
    [kind |-> kind, fts_path |-> ROOT_PATH \o rel, size |-> size,
     st_mode |-> mode]

\* st_mode values: S_IFREG | 0644 and S_IFREG | 0755
MODE_644 == 32768 + 420
MODE_755 == 32768 + 493

NodeChoices ==
    { Node("file", <<"boot.img">>, U64FromNat(5), MODE_644),
      Node("file", <<"system", "system.img">>, ZIP64_LIMIT, MODE_755),
      Node("file", <<"system", "cache.img">>,
           U64(Limb - 1, Limb - 2), MODE_644),
      Node("file", AROMA_CONFIG_IN, U64FromNat(0), MODE_644),
      Node("symlink", <<"system", "link">>, U64FromNat(0), MODE_644),
      Node("special", <<"fifo">>, U64FromNat(0), MODE_644),
      Node("dir", <<"system">>, U64FromNat(0), MODE_755) }

\* the paths of a directory tree are distinct
Trees ==
    { t \in SeqsUpTo(NodeChoices, MaxNodes) :
        \A i, j \in 1..Len(t) : i # j => t[i].fts_path # t[j].fts_path }

\* what util::file_read_all can find in the template file: text followed by
\* pad filler bytes that are part of no token
Data(text, pad) == [text |-> text, pad |-> pad]
NoData == Data(<<>>, U64FromNat(0))

WalkTemplates ==
    { <<>>, TOK_ROM_MENU_ITEMS, <<"a">> \o TOK_TAB \o TOK_LAST_INDEX }
WalkPads == { U64FromNat(0), U64(Limb - 1, Limb - 2), ZIP64_LIMIT }
WalkRomLists ==
    { <<>>, <<Rom(Str_primary, FALSE, <<>>)>>,
      <<Rom(Str_dual, TRUE, <<"a","\t","b">>)>> }

\* contents.size()
ContentsSize(data) == U64Add(data.pad, Len(data.text))

NoCur == [name |-> <<>>, data |-> NoData, chunks |-> 0]

WalkIdle ==
    /\ tree = <<>>
    /\ pc = "idle"
    /\ idx = 1
    /\ zf = "uninit"
    /\ closeCalls = 0
    /\ closeOK = FALSE
    /\ recOpen = 0
    /\ entries = <<>>
    /\ fds = 0
    /\ cur = NoCur
    /\ af_err = {}
    /\ af_ret = FALSE
    /\ rets = <<>>
    /\ errs = {}
    /\ success = TRUE
    /\ result = "none"

Init ==
    /\ tree \in Trees
    /\ pc = "start"
    /\ idx = 1
    /\ zf = "uninit"
    /\ closeCalls = 0
    /\ closeOK = FALSE
    /\ recOpen = 0
    /\ entries = <<>>
    /\ fds = 0
    /\ cur = NoCur
    /\ af_err = {}
    /\ af_ret = FALSE
    /\ rets = <<>>
    /\ errs = {}
    /\ success = TRUE
    /\ result = "none"
    /\ CfgIdle

ConfigInit ==
    /\ WalkIdle
    /\ cfg_pc = "in"
    /\ cfg_data \in Templates
    /\ cfg_roms \in RomLists
    /\ cfg_loc = NoLoc

ConfigNext == ConfigGenerate

SpecConfig == ConfigInit /\ [][ConfigNext]_vars

-----------------------------------------------------------------------------
(* FTSWrapper::run(): what it does with a callback's return value.  A      *)
(* failure is fatal to the walk: traversal stops and on_post_execute is    *)
(* still called.                                                            *)
RunAfter(ret) ==
    /\ rets' = Append(rets, ret)
    /\ IF HasFail(ret)
       THEN /\ success' = FALSE
            /\ pc' = "post"
            /\ idx' = idx
       ELSE /\ success' = success
            /\ pc' = "walk"
            /\ idx' = idx + 1

AtNode(kind) ==
    /\ pc = "walk"
    /\ idx <= Len(tree)
    /\ tree[idx].kind = kind

\* mutant of on_pre_execute: the null check is missing
on_pre_execute_unchecked(zfv) == TRUE

\* on_pre_execute's return value, given what zipOpen2_64 stored in _zf
on_pre_execute(zfv) == zfv # "null"

\* mutant of on_post_execute: zipClose's result is dropped
on_post_execute_ignores_close(succ, zipCloseOK) == succ

\* on_post_execute's return value, given its argument and whether zipClose
\* returned ZIP_OK
on_post_execute(succ, zipCloseOK) == zipCloseOK

\* mutant of on_reached_symlink: a symlink fails the walk
on_reached_symlink_fails == FTS_Fail

on_reached_symlink == FTS_OK

on_reached_special_file == FTS_OK

\* FTSWrapper's default on_reached_directory_pre
on_reached_directory_pre == FTS_OK

\* std::string(_curr->fts_path).substr(_path.size() + 1)
NameOf(fts_path) == SubSeq(fts_path, Len(ROOT_PATH) + 1, Len(fts_path))

\* "return false" from on_reached_file, whose return type is int
on_reached_file_read_failed == BoolToInt(FALSE)

\* ret ? Action::FTS_OK : Action::FTS_Fail
on_reached_file_ret(ret) == IF ret THEN FTS_OK ELSE FTS_Fail

\* bool zip64 = (uint64_t) contents.size() >= ((1ull << 32) - 1)
zip64_contents(data) == U64Geq(ContentsSize(data), ZIP64_LIMIT)

\* mutant of zip64_path: the tight comparison, size > 2^32 - 1
zip64_path_strict(size) == U64Geq(size, ZIP64_LIMIT) /\ size # ZIP64_LIMIT

\* bool zip64 = size >= ((1ull << 32) - 1)
zip64_path(size) == U64Geq(size, ZIP64_LIMIT)

\* zi.external_fa = (sb.st_mode & 0777) << 16
external_fa(st_mode) == (st_mode % 512) * Limb

\* run() up to and including on_pre_execute
PreExecute ==
    /\ pc = "start"
    /\ \E opened \in BOOLEAN :
         /\ zf' = IF opened THEN "open" ELSE "null"
         /\ errs' = IF opened THEN errs ELSE errs \cup {"zip_open"}
         /\ IF on_pre_execute(zf')
            THEN pc' = "walk" /\ result' = result
            ELSE pc' = "done" /\ result' = FALSE
    /\ UNCHANGED <<tree, idx, closeCalls, closeOK, recOpen, entries, fds, cur,
                   af_err, af_ret, rets, success, cfgVars>>

ReachedDirectory ==
    /\ AtNode("dir")
    /\ RunAfter(on_reached_directory_pre)
    /\ UNCHANGED <<tree, zf, closeCalls, closeOK, recOpen, entries, fds, cur,
                   af_err, af_ret, errs, result, cfgVars>>

ReachedSymlink ==
    /\ AtNode("symlink")
    /\ RunAfter(on_reached_symlink)
    /\ UNCHANGED <<tree, zf, closeCalls, closeOK, recOpen, entries, fds, cur,
                   af_err, af_ret, errs, result, cfgVars>>

ReachedSpecialFile ==
    /\ AtNode("special")
    /\ RunAfter(on_reached_special_file)
    /\ UNCHANGED <<tree, zf, closeCalls, closeOK, recOpen, entries, fds, cur,
                   af_err, af_ret, errs, result, cfgVars>>

\* on_reached_file up to the branch on the name
ReachedFile ==
    /\ AtNode("file")
    /\ LET name == NameOf(tree[idx].fts_path)
       IN  /\ cur' = [NoCur EXCEPT !.name = name]
           /\ pc' = IF name = AROMA_CONFIG_IN THEN "read_all" ELSE "open64"
    /\ af_err' = {}
    /\ UNCHANGED <<tree, idx, zf, closeCalls, closeOK, recOpen, entries, fds,
                   af_ret, rets, errs, success, result, cfgVars>>

\* util::file_read_all on the template; on failure on_reached_file returns
FileReadAll ==
    /\ pc = "read_all"
    /\ \/ /\ errs' = errs \cup {"read_all"}
          /\ RunAfter(on_reached_file_read_failed)
          /\ cur' = cur
       \/ /\ \E text \in WalkTemplates, pad \in WalkPads :
               cur' = [cur EXCEPT !.data = Data(text, pad)]
          /\ pc' = "generate"
          /\ UNCHANGED <<errs, rets, success, idx>>
    /\ UNCHANGED <<tree, zf, closeCalls, closeOK, recOpen, entries, fds,
                   af_err, af_ret, result, cfgVars>>

\* generate_aroma_config(&data); name = ".../aroma-config"
Generate ==
    /\ pc = "generate"
    /\ \E roms \in WalkRomLists :
         cur' = [cur EXCEPT
                   !.data = Data(generate_aroma_config(cur.data.text, roms),
                                 cur.data.pad),
                   !.name = AROMA_CONFIG]
    /\ pc' = "mem_openrec"
    /\ UNCHANGED <<tree, idx, zf, closeCalls, closeOK, recOpen, entries, fds,
                   af_err, af_ret, rets, errs, success, result, cfgVars>>

Entry(name, z64, size, fa, kind, data) ==
    [name |-> name, zip64 |-> z64, size |-> size, external_fa |-> fa,
     kind |-> kind, data |-> data, src |-> idx]

\* add_file(name, contents): zipOpenNewFileInZip2_64
MemOpenRecord ==
    /\ pc = "mem_openrec"
    /\ \/ /\ af_err' = af_err \cup {"record_open"}
          /\ errs' = errs \cup {"record_open"}
          /\ af_ret' = FALSE
          /\ pc' = "file_ret"
          /\ UNCHANGED <<recOpen, entries>>
       \/ /\ recOpen' = recOpen + 1
          /\ entries' = Append(entries,
                 Entry(cur.name, zip64_contents(cur.data),
                       ContentsSize(cur.data), 0, "mem", cur.data.text))
          /\ pc' = "mem_write"
          /\ UNCHANGED <<af_err, errs, af_ret>>
    /\ UNCHANGED <<tree, idx, zf, closeCalls, closeOK, fds, cur, rets,
                   success, result, cfgVars>>

\* add_file(name, contents): zipWriteInFileInZip failed
MemWriteFailed ==
    /\ pc = "mem_write"
    /\ \E closed \in BOOLEAN :
         LET e == {"write"} \cup (IF closed THEN {} ELSE {"record_close"})
         IN  /\ af_err' = af_err \cup e
             /\ errs' = errs \cup e
    /\ recOpen' = recOpen - 1
    /\ af_ret' = FALSE
    /\ pc' = "file_ret"
    /\ UNCHANGED <<tree, idx, zf, closeCalls, closeOK, entries, fds, cur,
                   rets, success, result, cfgVars>>

\* add_file(name, contents): zipWriteInFileInZip succeeded
MemWriteDone ==
    /\ pc = "mem_write"
    /\ \E closed \in BOOLEAN :
         LET e == IF closed THEN {} ELSE {"record_close"}
         IN  /\ af_err' = af_err \cup e
             /\ errs' = errs \cup e
    /\ recOpen' = recOpen - 1
    /\ af_ret' = TRUE
    /\ pc' = "file_ret"
    /\ UNCHANGED <<tree, idx, zf, closeCalls, closeOK, entries, fds, cur,
                   rets, success, result, cfgVars>>

-----------------------------------------------------------------------------
(* add_file(name, path) *)

\* open64(path, O_RDONLY)
Open64 ==
    /\ pc = "open64"
    /\ \/ /\ af_err' = af_err \cup {"open_read"}
          /\ errs' = errs \cup {"open_read"}
          /\ af_ret' = FALSE
          /\ pc' = "file_ret"
          /\ fds' = fds
       \/ /\ fds' = fds + 1
          /\ pc' = "fstat"
          /\ UNCHANGED <<af_err, errs, af_ret>>
    /\ UNCHANGED <<tree, idx, zf, closeCalls, closeOK, recOpen, entries, cur,
                   rets, success, result, cfgVars>>

\* fstat(fd, &sb)
Fstat ==
    /\ pc = "fstat"
    /\ \/ /\ af_err' = af_err \cup {"fstat"}
          /\ errs' = errs \cup {"fstat"}
          /\ af_ret' = FALSE
          /\ pc' = "file_ret"
       \/ /\ pc' = "openrec"
          /\ UNCHANGED <<af_err, errs, af_ret>>
    /\ UNCHANGED <<tree, idx, zf, closeCalls, closeOK, recOpen, entries, fds,
                   cur, rets, success, result, cfgVars>>

\* the lseek64 calls (the size of a regular file), zip64, zi.external_fa and
\* zipOpenNewFileInZip2_64
OpenRecord ==
    /\ pc = "openrec"
    /\ \/ /\ af_err' = af_err \cup {"record_open"}
          /\ errs' = errs \cup {"record_open"}
          /\ af_ret' = FALSE
          /\ pc' = "file_ret"
          /\ UNCHANGED <<recOpen, entries>>
       \/ /\ recOpen' = recOpen + 1
          /\ entries' = Append(entries,
                 Entry(cur.name, zip64_path(tree[idx].size), tree[idx].size,
                       external_fa(tree[idx].st_mode), "path", <<>>))
          /\ pc' = "copy"
          /\ UNCHANGED <<af_err, errs, af_ret>>
    /\ UNCHANGED <<tree, idx, zf, closeCalls, closeOK, fds, cur, rets,
                   success, result, cfgVars>>

\* read() > 0 and zipWriteInFileInZip succeeded: the loop goes on
CopyChunk ==
    /\ pc = "copy"
    /\ cur.chunks < MaxChunks
    /\ cur' = [cur EXCEPT !.chunks = @ + 1]
    /\ UNCHANGED <<tree, pc, idx, zf, closeCalls, closeOK, recOpen, entries,
                   fds, af_err, af_ret, rets, errs, success, result, cfgVars>>

\* mutant of CopyWriteFailed: returns without zipCloseFileInZip
CopyWriteFailed_NoClose ==
    /\ pc = "copy"
    /\ cur.chunks < MaxChunks
    /\ af_err' = af_err \cup {"write"}
    /\ errs' = errs \cup {"write"}
    /\ af_ret' = FALSE
    /\ pc' = "file_ret"
    /\ UNCHANGED <<tree, idx, zf, closeCalls, closeOK, recOpen, entries, fds,
                   cur, rets, success, result, cfgVars>>

\* read() > 0 and zipWriteInFileInZip failed: zipCloseFileInZip, return false
CopyWriteFailed ==
    /\ pc = "copy"
    /\ cur.chunks < MaxChunks
    /\ \E closed \in BOOLEAN :
         LET e == {"write"} \cup (IF closed THEN {} ELSE {"record_close"})
         IN  /\ af_err' = af_err \cup e
             /\ errs' = errs \cup e
    /\ recOpen' = recOpen - 1
    /\ af_ret' = FALSE
    /\ pc' = "file_ret"
    /\ UNCHANGED <<tree, idx, zf, closeCalls, closeOK, entries, fds, cur,
                   rets, success, result, cfgVars>>

\* read() < 0: zipCloseFileInZip, return false
CopyReadFailed ==
    /\ pc = "copy"
    /\ \E closed \in BOOLEAN :
         LET e == {"read"} \cup (IF closed THEN {} ELSE {"record_close"})
         IN  /\ af_err' = af_err \cup e
             /\ errs' = errs \cup e
    /\ recOpen' = recOpen - 1
    /\ af_ret' = FALSE
    /\ pc' = "file_ret"
    /\ UNCHANGED <<tree, idx, zf, closeCalls, closeOK, entries, fds, cur,
                   rets, success, result, cfgVars>>

\* read() == 0: zipCloseFileInZip, return true
CopyDone ==
    /\ pc = "copy"
    /\ \E closed \in BOOLEAN :
         LET e == IF closed THEN {} ELSE {"record_close"}
         IN  /\ af_err' = af_err \cup e
             /\ errs' = errs \cup e
    /\ recOpen' = recOpen - 1
    /\ af_ret' = TRUE
    /\ pc' = "file_ret"
    /\ UNCHANGED <<tree, idx, zf, closeCalls, closeOK, entries, fds, cur,
                   rets, success, result, cfgVars>>

\* add_file has returned: on_reached_file returns to run()
ReachedFileReturn ==
    /\ pc = "file_ret"
    /\ RunAfter(on_reached_file_ret(af_ret))
    /\ UNCHANGED <<tree, zf, closeCalls, closeOK, recOpen, entries, fds, cur,
                   af_err, af_ret, errs, result, cfgVars>>

\* fts_read() returned no more nodes
WalkEnd ==
    /\ pc = "walk"
    /\ idx > Len(tree)
    /\ pc' = "post"
    /\ UNCHANGED <<tree, idx, zf, closeCalls, closeOK, recOpen, entries, fds,
                   cur, af_err, af_ret, rets, errs, success, result, cfgVars>>

\* on_post_execute(success): zipClose(_zf, nullptr); run() returns
PostExecute ==
    /\ pc = "post"
    /\ \E ok \in BOOLEAN :
         LET zipCloseOK == ok /\ zf = "open"
         IN  /\ closeOK' = zipCloseOK
             /\ errs' = IF zipCloseOK THEN errs ELSE errs \cup {"zip_close"}
             /\ result' = (success /\ on_post_execute(success, zipCloseOK))
    /\ closeCalls' = closeCalls + 1
    /\ zf' = IF zf = "open" THEN "closed" ELSE zf
    /\ pc' = "done"
    /\ UNCHANGED <<tree, idx, recOpen, entries, fds, cur, af_err, af_ret,
                   rets, success, cfgVars>>

Next ==
    \/ PreExecute
    \/ ReachedDirectory
    \/ ReachedSymlink
    \/ ReachedSpecialFile
    \/ ReachedFile
    \/ FileReadAll
    \/ Generate
    \/ MemOpenRecord
    \/ MemWriteFailed
    \/ MemWriteDone
    \/ Open64
    \/ Fstat
    \/ OpenRecord
    \/ CopyChunk
    \/ CopyWriteFailed
    \/ CopyReadFailed
    \/ CopyDone
    \/ ReachedFileReturn
    \/ WalkEnd
    \/ PostExecute

Spec == Init /\ [][Next]_vars

-----------------------------------------------------------------------------
(* Properties *)

Opened == zf \in {"open", "closed"}

EntryIdx == 1..Len(entries)

\* the error kinds that make add_file return false
AddFileFatal == {"open_read", "fstat", "record_open", "write", "read"}

C2_CloseExactlyOnce ==
    /\ closeCalls <= 1
    /\ closeCalls = 1 => pc = "done"
    /\ pc = "done" /\ Opened => closeCalls = 1 /\ zf = "closed"
    /\ pc \notin {"start", "done"} => zf = "open"
    /\ zf = "null" =>
         /\ pc = "done"
         /\ closeCalls = 0
         /\ rets = <<>>
         /\ entries = <<>>

\* the archive was closed once after an add_file call that failed mid-entry
C2_Witness ==
    /\ pc = "done"
    /\ zf = "closed"
    /\ closeCalls = 1
    /\ af_ret = FALSE
    /\ "write" \in errs
    /\ Len(entries) >= 2

\* C3: if a regular file cannot be read (open64 fails in add_file, or
\* reading the template fails in on_reached_file) the run reports failure
\* and the archive is still closed, holding the entries written before the
\* failure.
C3_ReadFailureFails ==
    pc = "done" /\ errs \cap {"open_read", "read_all"} # {} =>
      /\ result = FALSE
      /\ zf = "closed"
      /\ \A k \in EntryIdx : entries[k].src < idx

\* C4: symlink and special-file nodes never produce an entry and never
\* change the result: when nothing else fails the run reports success and
\* every regular file has its entry.
C4_SymlinksAndSpecialsIgnored ==
    /\ \A k \in EntryIdx : tree[entries[k].src].kind = "file"
    /\ \A i \in 1..Len(rets) :
         tree[i].kind \in {"symlink", "special"} => rets[i] = FTS_OK
    /\ pc = "done" /\ errs = {} =>
         /\ result = TRUE
         /\ \A i \in 1..Len(tree) :
              tree[i].kind = "file" =>
                \E k \in EntryIdx : entries[k].src = i

\* a successful run over a tree with a symlink, a special file and a file
C4_Witness ==
    /\ pc = "done"
    /\ result = TRUE
    /\ \E i \in 1..Len(tree) : tree[i].kind = "symlink"
    /\ \E i \in 1..Len(tree) : tree[i].kind = "special"
    /\ entries # <<>>

\* C5: in both add_file variants an entry is opened as zip64 iff its own
\* content length is >= 2^32 - 1: 4294967295 selects zip64, 4294967294
\* does not, whatever the earlier entries were.
C5_Zip64Boundary ==
    \A k \in EntryIdx :
      LET e == entries[k]
      IN  /\ e.zip64 <=>
               \/ e.size.hi > 65535
               \/ e.size.hi = 65535 /\ e.size.lo = 65535
          /\ e.kind = "path" => e.size = tree[e.src].size

\* a path-sourced entry of 2^32 - 1 bytes (zip64), then one of 2^32 - 2
\* bytes (not zip64), then a buffer-sourced one of 2^32 - 1 bytes (zip64)
C5_Witness ==
    /\ Len(entries) = 3
    /\ entries[1].kind = "path"
    /\ entries[1].size = U64(65535, 65535)
    /\ entries[1].zip64
    /\ entries[2].size = U64(65535, 65534)
    /\ ~entries[2].zip64
    /\ entries[3].kind = "mem"
    /\ entries[3].size = U64(65535, 65535)
    /\ entries[3].zip64

\* C6: the archive never holds an entry named .../aroma-config.in, and the
\* entry at .../aroma-config holds text in which no tab and none of the
\* five @...@ tokens remains, whatever the template and the ROM names.
C6_NoTokenRemains ==
    \A k \in EntryIdx :
      /\ entries[k].name # AROMA_CONFIG_IN
      /\ entries[k].name = AROMA_CONFIG =>
           \A tok \in Tokens : ~Contains(entries[k].data, tok)

\* C7 as stated: with no ROM both indexes are the offset 3, and with N ROMs
\* "last index" is 3 + N.
C7_LastIndexIsOffsetPlusN ==
    cfg_pc = "done" =>
      LET n == Len(cfg_roms)
      IN  /\ n = 0 =>
               /\ cfg_loc.menu = <<>>
               /\ cfg_loc.sel = <<>>
               /\ cfg_loc.first = FormatNat(3)
               /\ cfg_loc.last = FormatNat(3)
          /\ cfg_loc.last = FormatNat(3 + n)

\* C7 (amended): with no ROM the menu and selection blocks are empty,
\* "first index" is 3 and "last index" is 2; with N ROMs "last index" is
\* 2 + N, the menu position of the last ROM.
C7_LastIndexIsTwoPlusN ==
    cfg_pc = "done" =>
      LET n == Len(cfg_roms)
      IN  /\ n = 0 =>
               /\ cfg_loc.menu = <<>>
               /\ cfg_loc.sel = <<>>
               /\ cfg_loc.last = FormatNat(2)
          /\ n > 0 => cfg_loc.menu # <<>> /\ cfg_loc.sel # <<>>
          /\ cfg_loc.first = FormatNat(3)
          /\ cfg_loc.last = FormatNat(2 + n)
          /\ cfg_loc.in = TOK_FIRST_INDEX \o TOK_LAST_INDEX =>
               cfg_data = FormatNat(3) \o FormatNat(2 + n)

\* the template "@FIRST_INDEX@@LAST_INDEX@" rewritten with two ROMs
C7_Witness ==
    /\ cfg_pc = "done"
    /\ Len(cfg_roms) = 2
    /\ cfg_loc.in = TOK_FIRST_INDEX \o TOK_LAST_INDEX
    /\ cfg_data = <<"3", "4">>

\* C8: at most one entry record is open at a time, and none is open when
\* add_file has returned, when the next entry is opened or when zipClose is
\* called.
C8_OneRecordAtATime ==
    /\ recOpen \in {0, 1}
    /\ pc \notin {"mem_write", "copy"} => recOpen = 0

\* add_file returned after a write failure on the second entry
C8_Witness ==
    /\ pc = "file_ret"
    /\ "write" \in af_err
    /\ Len(entries) = 2
    /\ recOpen = 0

\* C9: add_file returns false whenever one of the per-entry errors occurred
\* in it: open-for-read, record-open, write or record-close failure.
C9_AnyEntryErrorFails ==
    pc = "file_ret" =>
      (af_err \cap {"open_read", "record_open", "write", "record_close"} # {}
         => af_ret = FALSE)

\* C10: no source descriptor opened by add_file is open once add_file has
\* returned.
C10_NoDescriptorLeft ==
    pc \in {"file_ret", "walk", "post", "done"} => fds = 0

====
